---- MODULE Spec2Model ----
(***************************************************************************)
(* Model of the image conversion services of kernRunner/conver-images.     *)
(*                                                                         *)
(* The repository holds six deployments of the same service:               *)
(*   "index"        src/index.mjs            POST /convert, multipart      *)
(*   "part_000"     src/unnamed/part_000     POST /convert, multipart,     *)
(*                                           heuristic orientation planner *)
(*   "part_001"     src/unnamed/part_001     POST /convert, zip archive    *)
(*   "part_002"     src/unnamed/part_002     POST /upload, tenant-scoped   *)
(*   "docker_admin" src/Dockerfile:14-157    POST /upload, admin token     *)
(*   "docker_open"  src/Dockerfile:159-261   POST /upload, no auth         *)
(*                                                                         *)
(* Strings that the code inspects character by character (folders, file    *)
(* names, paths) are sequences of one-character strings; "NUL" stands for  *)
(* the null byte.  Strings used only as opaque keys are TLA+ strings.      *)
(***************************************************************************)
EXTENDS Integers, Sequences, FiniteSets, TLC

\* ------------------------------------------------------------------ bounds
MaxFolderLen == 4
MaxNameLen == 3
MaxDim == 3

\* --------------------------------------------------------- string helpers
SeqsUpTo(S, n) == UNION {[1..k -> S] : k \in 0..n}

Last(s) == s[Len(s)]

Front(s) == SubSeq(s, 1, Len(s) - 1)

\* s.includes(c) for a single character c
HasChar(s, c) == \E i \in 1..Len(s) : s[i] = c

\* s.startsWith(p)
StartsWith(s, p) == Len(p) <= Len(s) /\ SubSeq(s, 1, Len(p)) = p

\* s.includes(p) for a string p
Includes(s, p) ==
  \E i \in 1..(Len(s) - Len(p) + 1) : SubSeq(s, i, i + Len(p) - 1) = p

\* String.prototype.replace(p, "") with a string pattern: the first
\* occurrence of p is removed (the empty pattern matches at 0, removing nothing)
ReplaceFirst(s, p) ==
  IF p = <<>> \/ ~Includes(s, p) THEN s
  ELSE LET i == CHOOSE j \in 1..(Len(s) - Len(p) + 1) :
                  /\ SubSeq(s, j, j + Len(p) - 1) = p
                  /\ \A k \in 1..(j - 1) : SubSeq(s, k, k + Len(p) - 1) /= p
       IN SubSeq(s, 1, i - 1) \o SubSeq(s, i + Len(p), Len(s))

\* s.replace(/^c+/, "") : leading run of c removed
RECURSIVE StripLeading(_, _)
StripLeading(s, c) ==
  IF s /= <<>> /\ s[1] = c THEN StripLeading(Tail(s), c) ELSE s

\* s.replace(/c+$/, "") : trailing run of c removed
RECURSIVE StripTrailing(_, _)
StripTrailing(s, c) ==
  IF s /= <<>> /\ Last(s) = c THEN StripTrailing(Front(s), c) ELSE s

\* every occurrence of character a replaced by b
MapChar(s, a, b) == [i \in 1..Len(s) |-> IF s[i] = a THEN b ELSE s[i]]

\* the characters of s that are in the set keep
RECURSIVE Filter(_, _)
Filter(s, keep) ==
  IF s = <<>> THEN <<>>
  ELSE (IF s[1] \in keep THEN <<s[1]>> ELSE <<>>) \o Filter(Tail(s), keep)

\* s.replace(/\s+/g, "-") : every maximal run of whitespace becomes one hyphen
RECURSIVE CollapseSpace(_)
CollapseSpace(s) ==
  IF s = <<>> THEN <<>>
  ELSE IF s[1] = " "
       THEN <<"-">> \o CollapseSpace(StripLeading(s, " "))
       ELSE <<s[1]>> \o CollapseSpace(Tail(s))

\* s.split("/")
RECURSIVE SplitFrom(_, _, _, _)
SplitFrom(s, i, cur, acc) ==
  IF i > Len(s) THEN Append(acc, cur)
  ELSE IF s[i] = "/" THEN SplitFrom(s, i + 1, <<>>, Append(acc, cur))
  ELSE SplitFrom(s, i + 1, Append(cur, s[i]), acc)

SplitSlash(s) == SplitFrom(s, 1, <<>>, <<>>)

\* segs.join("/")
RECURSIVE JoinSlash(_)
JoinSlash(segs) ==
  IF segs = <<>> THEN <<>>
  ELSE IF Len(segs) = 1 THEN segs[1]
  ELSE segs[1] \o <<"/">> \o JoinSlash(Tail(segs))

\* ------------------------------------------------------------- node:path
\* posix normalizeString: "." and empty segments dropped, ".." pops the
\* previous segment, is kept above a relative start and dropped above the root
RECURSIVE NormalizeSegs(_, _, _)
NormalizeSegs(segs, acc, allowAboveRoot) ==
  IF segs = <<>> THEN acc
  ELSE LET seg == segs[1]
           rest == Tail(segs)
       IN IF seg = <<>> \/ seg = <<".">> THEN NormalizeSegs(rest, acc, allowAboveRoot)
          ELSE IF seg = <<".", ".">>
               THEN IF acc /= <<>> /\ Last(acc) /= <<".", ".">>
                    THEN NormalizeSegs(rest, Front(acc), allowAboveRoot)
                    ELSE IF allowAboveRoot
                         THEN NormalizeSegs(rest, Append(acc, seg), allowAboveRoot)
                         ELSE NormalizeSegs(rest, acc, allowAboveRoot)
               ELSE NormalizeSegs(rest, Append(acc, seg), allowAboveRoot)

IsAbsolute(p) == p /= <<>> /\ p[1] = "/"

\* path.normalize(p)
PathNormalize(p) ==
  IF p = <<>> THEN <<".">>
  ELSE LET abs == IsAbsolute(p)
           trailing == Last(p) = "/"
           body == JoinSlash(NormalizeSegs(SplitSlash(p), <<>>, ~abs))
           body2 == IF body = <<>> /\ ~abs THEN <<".">> ELSE body
           body3 == IF body2 /= <<>> /\ trailing THEN body2 \o <<"/">> ELSE body2
       IN IF abs THEN <<"/">> \o body3 ELSE body3

\* path.join(a, b, ...): the non-empty arguments joined by "/" and normalized
RECURSIVE JoinArgs(_)
JoinArgs(args) ==
  IF args = <<>> THEN <<>>
  ELSE LET rest == JoinArgs(Tail(args))
       IN IF args[1] = <<>> THEN rest
          ELSE IF rest = <<>> THEN args[1]
          ELSE args[1] \o <<"/">> \o rest

PathJoin(args) == PathNormalize(JoinArgs(args))

\* process.cwd() of the container (WORKDIR /app)
Cwd == <<"/", "a", "p", "p">>

\* path.resolve(p): absolute, normalized, no trailing slash
PathResolve(p) ==
  LET full == IF IsAbsolute(p) THEN p ELSE Cwd \o <<"/">> \o p
  IN <<"/">> \o JoinSlash(NormalizeSegs(SplitSlash(full), <<>>, FALSE))

\* path.extname(name) for a name without "/"
PathExtname(name) ==
  LET dots == {i \in 1..Len(name) : name[i] = "."}
  IN IF dots = {} THEN <<>>
     ELSE LET startDot == CHOOSE i \in dots : \A j \in dots : j <= i
          IN IF startDot = 1 THEN <<>>
             ELSE IF name[1] = "." /\ startDot = Len(name) /\ startDot = 2 THEN <<>>
             ELSE SubSeq(name, startDot, Len(name))

\* ------------------------------------------------------ character classes
LowerSeq == <<"a", "b", "c", "d", "e", "f", "g", "h", "i", "j", "k", "l", "m",
              "n", "o", "p", "q", "r", "s", "t", "u", "v", "w", "x", "y", "z">>

UpperSeq == <<"A", "B", "C", "D", "E", "F", "G", "H", "I", "J", "K", "L", "M",
              "N", "O", "P", "Q", "R", "S", "T", "U", "V", "W", "X", "Y", "Z">>

Lower == {LowerSeq[i] : i \in 1..Len(LowerSeq)}

Upper == {UpperSeq[i] : i \in 1..Len(UpperSeq)}

Digits == {"0", "1", "2", "3", "4", "5", "6", "7", "8", "9"}

\* c.toLowerCase()
LowerChar(c) ==
  IF c \in Upper THEN LowerSeq[CHOOSE i \in 1..Len(UpperSeq) : UpperSeq[i] = c] ELSE c

ToLowerCase(s) == [i \in 1..Len(s) |-> LowerChar(s[i])]

\* s.trim(): whitespace removed at both ends
Trim(s) == StripTrailing(StripLeading(s, " "), " ")

\* the class [a-zA-Z0-9/_-] of sanitizeFolder
FolderSafeChars == Lower \cup Upper \cup Digits \cup {"/", "_", "-"}

\* the class [a-z0-9-_.] of makeBaseName / makeSafeBaseName
NameSafeChars == Lower \cup Digits \cup {"-", "_", "."}

\* ------------------------------------------------------------ Path Sandbox
Threw == [ok |-> FALSE, value |-> <<>>]

Returned(v) == [ok |-> TRUE, value |-> v]

\* raw.replace(/\\/g, "/").replace(/^\/+|\/+$/g, "")
CleanFolder(raw) == StripTrailing(StripLeading(MapChar(raw, "\\", "/"), "/"), "/")

\* the mutant of sanitizeFolder that forgets the traversal test
SanitizeFolderNoTraversalTest(input) ==
  LET raw == Trim(input)
      cleaned == CleanFolder(raw)
  IN IF raw = <<>> THEN Returned(<<>>)
     ELSE IF cleaned = <<>> \/ \E i \in 1..Len(cleaned) : cleaned[i] \notin FolderSafeChars \cup {"."}
          THEN Threw
          ELSE Returned(cleaned)

\* the mutant of sanitizeFolder that forgets the character test
SanitizeFolderNoCharTest(input) ==
  LET raw == Trim(input)
      cleaned == CleanFolder(raw)
  IN IF raw = <<>> THEN Returned(<<>>)
     ELSE IF Includes(cleaned, <<".", ".">>) \/ StartsWith(cleaned, <<".">>)
             \/ HasChar(cleaned, "NUL")
          THEN Threw
          ELSE Returned(cleaned)

\* sanitizeFolder(input): the cleaned folder, or a throw of "Invalid folder"
sanitizeFolder(input) ==
  LET raw == Trim(input)
      cleaned == CleanFolder(raw)
  IN IF raw = <<>> THEN Returned(<<>>)
     ELSE IF Includes(cleaned, <<".", ".">>) \/ StartsWith(cleaned, <<".">>)
             \/ HasChar(cleaned, "NUL")
          THEN Threw
          ELSE IF cleaned = <<>> \/ \E i \in 1..Len(cleaned) : cleaned[i] \notin FolderSafeChars
               THEN Threw
               ELSE Returned(cleaned)

\* the folder of the deployment without validation (Dockerfile:220)
stripFolder(input) == StripTrailing(StripLeading(input, "/"), "/")

\* the containment test shared by ensureInsideBase and the admin upload:
\* resolvedTarget.startsWith(resolvedBase + path.sep) || resolvedTarget === resolvedBase
insideBase(baseDir, targetDir) ==
  LET resolvedBase == PathResolve(baseDir)
      resolvedTarget == PathResolve(targetDir)
  IN StartsWith(resolvedTarget, resolvedBase \o <<"/">>) \/ resolvedTarget = resolvedBase

\* ----------------------------------------------------------- Name Sanitizer
\* .toLowerCase().replace(/\s+/g, "-").replace(/[^a-z0-9-_.]/g, "")
SafeName(originalName) == Filter(CollapseSpace(ToLowerCase(originalName)), NameSafeChars)

\* safe.replace(/\.[^.]+$/, ""): a last dot followed by a non-empty dot-free
\* tail is removed with the tail
StripRegexExt(safe) ==
  LET dots == {i \in 1..Len(safe) : safe[i] = "."}
  IN IF dots = {} THEN safe
     ELSE LET d == CHOOSE i \in dots : \A j \in dots : j <= i
          IN IF d < Len(safe) THEN SubSeq(safe, 1, d - 1) ELSE safe

DefaultName == <<"i", "m", "a", "g", "e">>

\* makeBaseName(originalName) before the random id is appended
makeBaseNameBase(originalName) ==
  LET base == StripRegexExt(SafeName(originalName))
  IN IF base = <<>> THEN DefaultName ELSE base

\* makeSafeBaseName(originalName) before the random id is appended
makeSafeBaseNameBase(originalName) ==
  LET name == SafeName(IF originalName = <<>> THEN DefaultName ELSE originalName)
      base == ReplaceFirst(name, PathExtname(name))
  IN IF base = <<>> THEN DefaultName ELSE base

\* `${base}-${id}` with id = crypto.randomBytes(6).toString("hex")
WithId(base, id) == base \o <<"-">> \o id

\* ----------------------------------------------------------- Tenant Resolver
\* A request header: absent (req.header() gives undefined) or a string.
NoHeader == [present |-> FALSE, value |-> ""]

Header(v) == [present |-> TRUE, value |-> v]

\* A value of the parsed TENANTS_JSON object.  kind is the typeof of the value,
\* truthy its truthiness, tenantIsString whether value.tenant is a string.
StringEntry(t) == [kind |-> "string", truthy |-> t /= "", tenantIsString |-> FALSE, tenant |-> t]

RecordEntry(t) == [kind |-> "object", truthy |-> TRUE, tenantIsString |-> TRUE, tenant |-> t]

\* a record without a string `tenant` field, e.g. {"name": "x"}
BareRecordEntry == [kind |-> "object", truthy |-> TRUE, tenantIsString |-> FALSE, tenant |-> ""]

\* a number, e.g. 5
NumberEntry == [kind |-> "number", truthy |-> TRUE, tenantIsString |-> FALSE, tenant |-> ""]

\* undefined: what a property read gives for a name the object does not have
UndefinedEntry == [kind |-> "undefined", truthy |-> FALSE, tenantIsString |-> FALSE, tenant |-> ""]

\* Object.prototype, which every object literal inherits and "__proto__" reads
PrototypeEntry == [kind |-> "object", truthy |-> TRUE, tenantIsString |-> FALSE, tenant |-> ""]

\* Object.prototype.constructor, which every object literal inherits
ConstructorEntry == [kind |-> "function", truthy |-> TRUE, tenantIsString |-> FALSE, tenant |-> ""]

\* the result of getTenantFromApiKey: null, or a tenant string
Null == [isNull |-> TRUE, value |-> ""]

Tenant(t) == [isNull |-> FALSE, value |-> t]

\* TENANTS[apiKey]: a property read; a key that is not a string is converted
\* to one (undefined reads the property named "undefined"), and a name the
\* registry does not have is looked up on the prototype
PropertyRead(registry, apiKey) ==
  LET name == IF apiKey.present THEN apiKey.value ELSE "undefined"
  IN IF name \in DOMAIN registry THEN registry[name]
     ELSE IF name = "__proto__" THEN PrototypeEntry
     ELSE IF name = "constructor" THEN ConstructorEntry
     ELSE UndefinedEntry

\* the mutant of the resolver that takes the record shape only
ResolveEntryRecordOnly(entry) ==
  IF ~entry.truthy THEN Null
  ELSE IF entry.kind = "object" /\ entry.tenantIsString THEN Tenant(entry.tenant)
  ELSE Null

\* the body shared by every getTenantFromApiKey after the registry read
ResolveEntry(entry) ==
  IF ~entry.truthy THEN Null
  ELSE IF entry.kind = "string" THEN Tenant(entry.tenant)
  ELSE IF entry.kind = "object" /\ entry.tenantIsString THEN Tenant(entry.tenant)
  ELSE Null

\* getTenantFromApiKey of index.mjs, part_000 and part_001
getTenantFromApiKey(registry, apiKey) == ResolveEntry(PropertyRead(registry, apiKey))

\* getTenantFromApiKey of part_002, which first refuses a falsy key
getTenantFromApiKeyGuarded(registry, apiKey) ==
  IF ~apiKey.present \/ apiKey.value = "" THEN Null
  ELSE ResolveEntry(PropertyRead(registry, apiKey))

\* !tenant in the middleware: null and the empty string are refused
Refused(t) == t.isNull \/ t.value = ""

\* ------------------------------------------------ Orientation & Size Planner
LANDSCAPE_MAX_W == 2400
LANDSCAPE_MAX_H == 1600
PORTRAIT_MAX_W == 1600
PORTRAIT_MAX_H == 3200

\* image metadata as sharp reports it; the orientation tag may be missing
Metas ==
  {m \in [hasOrientation : BOOLEAN, orientation : 1..8, width : 1..MaxDim, height : 1..MaxDim] :
     m.hasOrientation \/ m.orientation = 1}

isSwapOrientation(o) == o = 5 \/ o = 6 \/ o = 7 \/ o = 8

\* the mutant of shouldRotate that bakes 90/270 tags whatever the pixel grid
ShouldRotateAlwaysSwap(o, w, h) ==
  o /= 1 /\ (isSwapOrientation(o) \/ (~isSwapOrientation(o) /\ (o = 3 \/ o = 4)))

\* shouldRotate of part_000
ShouldRotate(o, w, h) ==
  o /= 1 /\ ((isSwapOrientation(o) /\ w > h) \/ (~isSwapOrientation(o) /\ (o = 3 \/ o = 4)))

\* the mutant of isPortraitAfter that forgets a planned bake
IsPortraitAfterRawOnly(o, w, h) == h > w

\* isPortraitAfter of part_000
IsPortraitAfter(o, w, h) ==
  IF isSwapOrientation(o) THEN (IF ShouldRotate(o, w, h) THEN TRUE ELSE h > w) ELSE h > w

\* buildSharpBase of part_000: rotate only when shouldRotate, always
\* withMetadata({orientation: 1}), resize inside the chosen profile
buildSharpBaseHeuristic(m) ==
  LET o == IF m.hasOrientation THEN m.orientation ELSE 1
      w == m.width
      h == m.height
      isPortrait == IsPortraitAfter(o, w, h)
  IN [bakeRotation |-> ShouldRotate(o, w, h),
      portrait |-> isPortrait,
      maxW |-> IF isPortrait THEN PORTRAIT_MAX_W ELSE LANDSCAPE_MAX_W,
      maxH |-> IF isPortrait THEN PORTRAIT_MAX_H ELSE LANDSCAPE_MAX_H,
      outOrientation |-> 1]

\* buildSharpBase of index.mjs: display size swapped for tags 5..8, and
\* .rotate() always in the pipeline, which applies (and drops) whatever
\* orientation tag the source carries
buildSharpBaseAlways(m) ==
  LET oriented == m.hasOrientation /\ m.orientation >= 5 /\ m.orientation <= 8
      w == m.width
      h == m.height
      displayW == IF oriented THEN h ELSE w
      displayH == IF oriented THEN w ELSE h
      isPortrait == displayH > displayW
  IN [bakeRotation |-> m.hasOrientation /\ m.orientation /= 1,
      portrait |-> isPortrait,
      maxW |-> IF isPortrait THEN 1600 ELSE 2400,
      maxH |-> IF isPortrait THEN 3200 ELSE 1600,
      outOrientation |-> 1]

\* ---------------------------------------------------------------- state
VARIABLES
  variant,      \* which deployment runs
  OUTPUT_DIR,   \* process.env.OUTPUT_DIR
  ADMIN_TOKEN,  \* process.env.ADMIN_TOKEN
  TENANTS,      \* JSON.parse(TENANTS_JSON)
  req,          \* the request line and headers
  body,         \* what multer parsed: req.file, req.body
  pc,           \* where the request is
  resolved,     \* what getTenantFromApiKey returned to the middleware
  tenant,       \* req.tenant
  folder,       \* the handler's folder
  outDir,       \* the handler's outDir
  baseName,     \* the handler's baseName
  meta,         \* the metadata the codec reported
  plan,         \* the pipeline buildSharpBase built
  todo,         \* the formats still to encode
  resp,         \* the response: status 0 while none is sent
  sent,         \* the parts of the response body, in order
  dirs,         \* directories created under the filesystem
  files,        \* files written
  ran,          \* the steps this request has run
  other         \* a second in-flight request, parked at one of its awaits

vars == <<variant, OUTPUT_DIR, ADMIN_TOKEN, TENANTS, req, body, pc, resolved, tenant, folder,
          outDir, baseName, meta, plan, todo, resp, sent, dirs, files, ran, other>>

ConvertVariants == {"index", "part_000", "part_001"}

UploadVariants == {"part_002", "docker_admin", "docker_open"}

Variants == ConvertVariants \cup UploadVariants

OUTPUTS == <<"webp", "avif">>

\* the inputs the model draws
FolderChars == {"a", ".", "/", "\\", " ", "NUL"}

Folders == SeqsUpTo(FolderChars, MaxFolderLen)

NameChars == {"a", "A", ".", "/", "\\", " ", "NUL"}

Names == SeqsUpTo(NameChars, MaxNameLen)

OriginalNames == {<<"a", ".", "b">>, <<".", ".">>, <<".", ".", "/", "a">>}

BodyNames == {<<>>, <<"A", " ", "b">>}

Ids == {<<"0", "f">>, <<"c", "4">>}

OutputDirs == {<<"/", "d">>, <<"/">>, <<"d">>}

AdminTokens == {"", "s3cret"}

Registries ==
  {<<>>} \cup
  {[k \in {key} |-> e] :
     key \in {"k1"},
     e \in {StringEntry("t"), RecordEntry("t"), StringEntry(""), RecordEntry(""),
            BareRecordEntry, NumberEntry}} \cup
  {[k \in {key} |-> StringEntry("t")] : key \in {"undefined", ""}}

HeaderValues ==
  {NoHeader} \cup {Header(v) : v \in {"k1", "undefined", "", "zz", "__proto__", "constructor"}}

TokenValues == {NoHeader} \cup {Header(v) : v \in {"", "s3cret", "zz"}}

Routes == {"health", "images", "post"}

NoBody == [hasFile |-> FALSE, folder |-> <<>>, originalname |-> <<>>, name |-> <<>>]

NoMeta == [hasOrientation |-> FALSE, orientation |-> 1, width |-> 1, height |-> 1]

NoPlan == [bakeRotation |-> FALSE, portrait |-> FALSE, maxW |-> 0, maxH |-> 0, outOrientation |-> 0]

NoResp == [status |-> 0, error |-> ""]

Resp(status, error) == [status |-> status, error |-> error]

\* no second request is in flight
NoOther == [pc |-> "absent"]

\* the request-local state before the request is handled
Fresh ==
  /\ body = NoBody
  /\ resolved = Null
  /\ tenant = Null
  /\ folder = <<>>
  /\ outDir = <<>>
  /\ baseName = <<>>
  /\ meta = NoMeta
  /\ plan = NoPlan
  /\ todo = <<>>
  /\ resp = NoResp
  /\ sent = <<>>
  /\ dirs = {}
  /\ files = {}
  /\ ran = {}

\* a deployment after startup with one request at the first middleware
Init ==
  /\ variant \in Variants
  /\ OUTPUT_DIR \in (IF variant \in UploadVariants THEN OutputDirs ELSE {<<>>})
  /\ ADMIN_TOKEN \in (IF variant = "docker_admin" THEN AdminTokens ELSE {""})
  /\ TENANTS \in (IF variant \in ConvertVariants \cup {"part_002"} THEN Registries ELSE {<<>>})
  /\ req \in [route : Routes,
              apiKey : (IF variant \in ConvertVariants \cup {"part_002"}
                        THEN HeaderValues ELSE {NoHeader}),
              adminToken : (IF variant = "docker_admin" THEN TokenValues ELSE {NoHeader})]
  /\ pc = "middleware"
  /\ Fresh
  /\ other = NoOther

\* ------------------------------------------------------------- middleware
\* where express routes the request once the middleware calls next()
Routed ==
  CASE req.route = "health" -> "health"
    [] req.route = "images" -> IF variant \in UploadVariants THEN "static" ELSE "notfound"
    [] OTHER -> "multer"

\* the public endpoints of the middleware: /health everywhere, and /images*
\* where the deployment serves files
IsPublic ==
  \/ req.route = "health"
  \/ req.route = "images" /\ variant \in {"part_002", "docker_admin"}

Finish(r) ==
  /\ resp' = r
  /\ pc' = "done"

\* the multi-tenant auth middleware: index.mjs:48-58, part_000:47-57,
\* part_001:64-74, part_002:105-119
AuthApiKey ==
  /\ pc = "middleware"
  /\ variant \in ConvertVariants \cup {"part_002"}
  /\ LET t == IF variant = "part_002"
              THEN getTenantFromApiKeyGuarded(TENANTS, req.apiKey)
              ELSE getTenantFromApiKey(TENANTS, req.apiKey)
     IN IF IsPublic THEN pc' = Routed /\ UNCHANGED <<resp, resolved, tenant>>
        ELSE /\ resolved' = t
             /\ IF Refused(t) THEN Finish(Resp(401, "unauthorized")) /\ UNCHANGED tenant
                ELSE pc' = Routed /\ tenant' = t /\ UNCHANGED resp
  /\ UNCHANGED <<other, variant, OUTPUT_DIR, ADMIN_TOKEN, TENANTS, req, body, folder, outDir,
                 baseName, meta, plan, todo, sent, dirs, files, ran>>

\* the admin-token auth middleware: Dockerfile:40-50
AuthAdminToken ==
  /\ pc = "middleware"
  /\ variant = "docker_admin"
  /\ IF IsPublic THEN pc' = Routed /\ UNCHANGED resp
     ELSE IF ADMIN_TOKEN = "" \/ req.adminToken /= Header(ADMIN_TOKEN)
          THEN Finish(Resp(401, "unauthorized"))
          ELSE pc' = Routed /\ UNCHANGED resp
  /\ UNCHANGED <<other, variant, OUTPUT_DIR, ADMIN_TOKEN, TENANTS, req, body, resolved, tenant, folder,
                 outDir, baseName, meta, plan, todo, sent, dirs, files, ran>>

\* the deployment without an auth middleware: Dockerfile:180-189
NoAuth ==
  /\ pc = "middleware"
  /\ variant = "docker_open"
  /\ pc' = Routed
  /\ UNCHANGED <<other, variant, OUTPUT_DIR, ADMIN_TOKEN, TENANTS, req, body, resolved, tenant, folder,
                 outDir, baseName, meta, plan, todo, resp, sent, dirs, files, ran>>

\* app.get("/health")
Health ==
  /\ pc = "health"
  /\ Finish(Resp(200, "ok"))
  /\ UNCHANGED <<other, variant, OUTPUT_DIR, ADMIN_TOKEN, TENANTS, req, body, resolved, tenant, folder,
                 outDir, baseName, meta, plan, todo, sent, dirs, files, ran>>

\* the file a GET below /images asks for
StaticPath == <<"t", "/", "x">>

\* express.static(root) resolving the path of a request below its mount: the
\* path is normalized below ".", a path with a null byte or with a ".."
\* segment left after normalization is refused, a path whose last segment is a
\* dotfile is ignored (the default of the dotfiles option), and any other path
\* names the file at root/path
StaticResolve(root, urlPath) ==
  IF HasChar(urlPath, "NUL") THEN Threw
  ELSE LET path == PathNormalize(<<".", "/">> \o urlPath)
           parts == SplitSlash(path)
           upParts == SplitSlash(MapChar(path, "\\", "/"))
           up == \E i \in 1..Len(upParts) : upParts[i] = <<".", ".">>
           dotfile == /\ \E i \in 1..Len(parts) : Len(parts[i]) > 1 /\ parts[i][1] = "."
                      /\ Last(parts) /= <<>>
                      /\ Last(parts)[1] = "."
       IN IF up \/ dotfile THEN Threw
          ELSE Returned(PathResolve(PathJoin(<<root, path>>)))

\* express.static(OUTPUT_DIR) mounted at /images: the file, or 404
Static ==
  /\ pc = "static"
  /\ LET r == StaticResolve(OUTPUT_DIR, <<"/">> \o StaticPath)
     IN Finish(IF r.ok /\ r.value \in files
               THEN Resp(200, "file") ELSE Resp(404, "not found"))
  /\ UNCHANGED <<other, variant, OUTPUT_DIR, ADMIN_TOKEN, TENANTS, req, body, resolved, tenant, folder,
                 outDir, baseName, meta, plan, todo, sent, dirs, files, ran>>

\* a path no route of the deployment matches
NotFound ==
  /\ pc = "notfound"
  /\ Finish(Resp(404, "not found"))
  /\ UNCHANGED <<other, variant, OUTPUT_DIR, ADMIN_TOKEN, TENANTS, req, body, resolved, tenant, folder,
                 outDir, baseName, meta, plan, todo, sent, dirs, files, ran>>

\* upload.single("image"): the multipart body is parsed into req.file and
\* req.body, or the upload is over the fileSize limit and multer passes a
\* MulterError to express, which answers 500 without calling the handler
Multer ==
  /\ pc = "multer"
  /\ ran' = ran \cup {"multer"}
  /\ \E tooLarge \in BOOLEAN :
       IF tooLarge
       THEN Finish(Resp(500, "File too large")) /\ UNCHANGED body
       ELSE /\ body' \in [hasFile : BOOLEAN,
                          folder : (IF variant \in UploadVariants THEN Folders ELSE {<<>>}),
                          originalname : OriginalNames,
                          name : (IF variant \in ConvertVariants THEN BodyNames ELSE {<<>>})]
            /\ pc' = "handler"
            /\ UNCHANGED resp
  /\ UNCHANGED <<other, variant, OUTPUT_DIR, ADMIN_TOKEN, TENANTS, req, resolved, tenant, folder, outDir,
                 baseName, meta, plan, todo, sent, dirs, files>>

\* ------------------------------------------------------------ POST /upload
\* a tenant identifier as the characters of a path segment (the tenants of
\* the model are at most one character long)
TenantChars(t) == IF t = "" THEN <<>> ELSE <<t>>

ExtChars(ext) == IF ext = "webp" THEN <<"w", "e", "b", "p">> ELSE <<"a", "v", "i", "f">>

\* `${baseName}.${ext}`
FileName(base, ext) == base \o <<".">> \o ExtChars(ext)

\* s.replace(/\/+/g, "/")
RECURSIVE CollapseSlashes(_)
CollapseSlashes(s) ==
  IF s = <<>> THEN <<>>
  ELSE IF s[1] = "/" THEN <<"/">> \o CollapseSlashes(StripLeading(s, "/"))
  ELSE <<s[1]>> \o CollapseSlashes(Tail(s))

\* the advertised URL below PUBLIC_BASE_URL: part_002:158, Dockerfile:143,
\* Dockerfile:241-246
UrlBelowBase(ext) ==
  LET file == FileName(baseName, ext)
      sub == IF folder /= <<>> THEN <<"/">> \o folder ELSE <<>>
  IN CASE variant = "part_002" -> <<"/">> \o TenantChars(tenant.value) \o sub \o <<"/">> \o file
       [] variant = "docker_admin" -> sub \o <<"/">> \o file
       [] OTHER -> CollapseSlashes(<<"/">> \o JoinArgs(<<folder, file>>))

\* the handler of POST /upload up to its first await (ensureDir):
\* part_002:122-138, Dockerfile:105-117, Dockerfile:216-222
UploadHandler ==
  /\ pc = "handler"
  /\ variant \in UploadVariants
  /\ ran' = ran \cup {"handler"}
  /\ IF ~body.hasFile
     THEN Finish(Resp(400, "No file uploaded")) /\ UNCHANGED <<folder, outDir>>
     ELSE IF variant = "docker_open"
     THEN /\ folder' = stripFolder(body.folder)
          /\ outDir' = PathJoin(<<OUTPUT_DIR, folder'>>)
          /\ pc' = "mkdir"
          /\ UNCHANGED resp
     ELSE LET s == sanitizeFolder(body.folder)
              dir == IF variant = "part_002"
                     THEN PathJoin(<<OUTPUT_DIR, TenantChars(tenant.value), s.value>>)
                     ELSE PathJoin(<<OUTPUT_DIR, s.value>>)
          IN IF ~s.ok
             THEN Finish(Resp(400, "Invalid folder")) /\ UNCHANGED <<folder, outDir>>
             ELSE /\ folder' = s.value
                  /\ outDir' = dir
                  /\ IF variant = "part_002" /\ ~insideBase(OUTPUT_DIR, dir)
                     THEN Finish(Resp(500, "Conversion failed"))
                     ELSE pc' = "mkdir" /\ UNCHANGED resp
  /\ UNCHANGED <<other, variant, OUTPUT_DIR, ADMIN_TOKEN, TENANTS, req, body, resolved, tenant, baseName,
                 meta, plan, todo, sent, dirs, files>>

\* await ensureDir(outDir) and what follows up to the first toFile; fs.mkdir
\* rejects a path with a null byte, and may fail for any other path:
\* part_002:138-155, Dockerfile:117-141, Dockerfile:222-239
Mkdir ==
  /\ pc = "mkdir"
  /\ ran' = ran \cup {"mkdir"}
  /\ \E created \in (IF HasChar(outDir, "NUL") THEN {FALSE} ELSE BOOLEAN), id \in Ids :
       IF ~created
       THEN Finish(Resp(500, "Conversion failed")) /\ UNCHANGED <<dirs, baseName, todo>>
       ELSE /\ dirs' = dirs \cup {PathResolve(outDir)}
            /\ IF variant = "docker_admin" /\ ~insideBase(OUTPUT_DIR, outDir)
               THEN Finish(Resp(400, "Invalid folder")) /\ UNCHANGED <<baseName, todo>>
               ELSE /\ baseName' = WithId(makeSafeBaseNameBase(body.originalname), id)
                    /\ todo' = OUTPUTS
                    /\ pc' = "write"
                    /\ UNCHANGED resp
  /\ UNCHANGED <<other, variant, OUTPUT_DIR, ADMIN_TOKEN, TENANTS, req, body, resolved, tenant, folder,
                 outDir, meta, plan, sent, files>>

\* await pipeline(base.clone(), ext).toFile(outPath) for the next format, the
\* URL of the format, and after the last format the JSON response:
\* part_002:153-162, Dockerfile:139-147, Dockerfile:237-251
Write ==
  /\ pc = "write"
  /\ ran' = ran \cup {"write"}
  /\ \E written \in BOOLEAN :
       LET ext == Head(todo)
           outPath == PathJoin(<<outDir, FileName(baseName, ext)>>)
       IN IF ~written
          THEN Finish(Resp(500, "Conversion failed")) /\ UNCHANGED <<files, sent, todo>>
          ELSE /\ files' = files \cup {PathResolve(outPath)}
               /\ sent' = Append(sent, [ext |-> ext, url |-> UrlBelowBase(ext)])
               /\ todo' = Tail(todo)
               /\ IF Tail(todo) = <<>> THEN Finish(Resp(200, "ok"))
                  ELSE UNCHANGED <<pc, resp>>
  /\ UNCHANGED <<other, variant, OUTPUT_DIR, ADMIN_TOKEN, TENANTS, req, body, resolved, tenant, folder,
                 outDir, baseName, meta, plan, dirs>>

\* ----------------------------------------------------------- POST /convert
\* the pipeline of part_001: .rotate() and one size box, no metadata read
PlanFixed == [bakeRotation |-> TRUE, portrait |-> FALSE, maxW |-> 3000, maxH |-> 2000,
              outOrientation |-> 1]

\* the handler of POST /convert up to its first await: index.mjs:132-138,
\* part_000:138-145, part_001:88-106
ConvertHandler ==
  /\ pc = "handler"
  /\ variant \in ConvertVariants
  /\ ran' = ran \cup {"handler"}
  /\ \E id \in Ids :
       IF ~body.hasFile
       THEN Finish(Resp(400, "No file uploaded")) /\ UNCHANGED <<baseName, plan, todo>>
       ELSE /\ baseName' = WithId(makeBaseNameBase(IF body.name /= <<>> THEN body.name
                                                   ELSE body.originalname), id)
            /\ UNCHANGED resp
            /\ IF variant = "part_001"
               THEN plan' = PlanFixed /\ todo' = OUTPUTS /\ pc' = "encode"
               ELSE pc' = "metadata" /\ UNCHANGED <<plan, todo>>
  /\ UNCHANGED <<other, variant, OUTPUT_DIR, ADMIN_TOKEN, TENANTS, req, body, resolved, tenant, folder,
                 outDir, meta, sent, dirs, files>>

\* await sharp(buffer).metadata() and the rest of buildSharpBase:
\* index.mjs:84-109, part_000:85-125
Metadata ==
  /\ pc = "metadata"
  /\ ran' = ran \cup {"decode"}
  /\ \/ /\ Finish(Resp(500, "Conversion failed"))
        /\ UNCHANGED <<meta, plan, todo>>
     \/ \E m \in Metas :
          /\ meta' = m
          /\ plan' = IF variant = "part_000" THEN buildSharpBaseHeuristic(m)
                     ELSE buildSharpBaseAlways(m)
          /\ todo' = OUTPUTS
          /\ pc' = "encode"
          /\ UNCHANGED resp
  /\ UNCHANGED <<other, variant, OUTPUT_DIR, ADMIN_TOKEN, TENANTS, req, body, resolved, tenant, folder,
                 outDir, baseName, sent, dirs, files>>

\* the mutant of Encode that writes each part to the response as soon as it
\* is encoded
EncodeStreaming ==
  /\ pc = "encode"
  /\ ran' = ran \cup {"encode"}
  /\ \E encoded \in BOOLEAN :
       IF ~encoded
       THEN Finish(Resp(500, "Conversion failed")) /\ UNCHANGED <<sent, todo>>
       ELSE /\ todo' = Tail(todo)
            /\ sent' = Append(sent, [part |-> Head(todo), file |-> FileName(baseName, Head(todo))])
            /\ IF Tail(todo) /= <<>> THEN UNCHANGED <<pc, resp>>
               ELSE Finish(Resp(200, "ok"))
  /\ UNCHANGED <<other, variant, OUTPUT_DIR, ADMIN_TOKEN, TENANTS, req, body, resolved, tenant,
                 folder, outDir, baseName, meta, plan, dirs, files>>

\* await base.clone().<format>().toBuffer() for the next format; after the
\* last one the response is written: the two parts and the closing delimiter
\* (index.mjs:142-172, part_000:147-176) or the archive (part_001:105-122)
Encode ==
  /\ pc = "encode"
  /\ ran' = ran \cup {"encode"}
  /\ \E encoded \in BOOLEAN :
       IF ~encoded
       THEN Finish(Resp(500, "Conversion failed")) /\ UNCHANGED <<sent, todo>>
       ELSE /\ todo' = Tail(todo)
            /\ IF Tail(todo) /= <<>> THEN UNCHANGED <<pc, resp, sent>>
               ELSE /\ Finish(Resp(200, "ok"))
                    /\ sent' = IF variant = "part_001"
                               THEN <<[part |-> "zip", file |-> baseName \o <<".", "z", "i", "p">>]>>
                               ELSE <<[part |-> "webp", file |-> FileName(baseName, "webp")],
                                      [part |-> "avif", file |-> FileName(baseName, "avif")],
                                      [part |-> "end", file |-> <<>>]>>
  /\ UNCHANGED <<other, variant, OUTPUT_DIR, ADMIN_TOKEN, TENANTS, req, body, resolved, tenant, folder,
                 outDir, baseName, meta, plan, dirs, files>>

\* ------------------------------------------------------------ specification
Next ==
  \/ AuthApiKey
  \/ AuthAdminToken
  \/ NoAuth
  \/ Health
  \/ Static
  \/ NotFound
  \/ Multer
  \/ UploadHandler
  \/ Mkdir
  \/ Write
  \/ ConvertHandler
  \/ Metadata
  \/ Encode

Spec == Init /\ [][Next]_vars

\* ------------------------------------------------- the tenant resolver alone
RegistryKeys == {"k1", "undefined", ""}

RegistryEntries == {StringEntry("t"), RecordEntry("t"), StringEntry(""), RecordEntry(""),
                    BareRecordEntry, NumberEntry}

\* every registry over the keys and entries of the model
AllRegistries == UNION {[K -> RegistryEntries] : K \in SUBSET RegistryKeys}

\* a multi-tenant deployment started with any registry, one request arriving
InitAuth ==
  /\ variant \in ConvertVariants \cup {"part_002"}
  /\ OUTPUT_DIR = (IF variant = "part_002" THEN <<"/", "d">> ELSE <<>>)
  /\ ADMIN_TOKEN = ""
  /\ TENANTS \in AllRegistries
  /\ req \in [route : Routes, apiKey : HeaderValues, adminToken : {NoHeader}]
  /\ pc = "middleware"
  /\ Fresh
  /\ other = NoOther

SpecAuth == InitAuth /\ [][AuthApiKey]_vars

\* -------------------------------------------------- the name sanitizer alone
\* a request whose file name is any string of the model, at the point where
\* the handler derives the base name
InitName ==
  /\ variant \in Variants
  /\ OUTPUT_DIR = (IF variant \in UploadVariants THEN <<"/", "d">> ELSE <<>>)
  /\ ADMIN_TOKEN = ""
  /\ TENANTS = <<>>
  /\ req = [route |-> "post", apiKey |-> NoHeader, adminToken |-> NoHeader]
  /\ pc = "name"
  /\ Fresh
  /\ other = NoOther

\* makeBaseName(req.body?.name || req.file.originalname): index.mjs:136,
\* part_000:144, part_001:92; makeSafeBaseName(req.file.originalname):
\* part_002:140, Dockerfile:126, Dockerfile:224
MakeName ==
  /\ pc = "name"
  /\ \E n \in Names, id \in Ids :
       /\ body' = [body EXCEPT !.hasFile = TRUE, !.originalname = n]
       /\ baseName' = IF variant \in ConvertVariants
                      THEN WithId(makeBaseNameBase(n), id)
                      ELSE WithId(makeSafeBaseNameBase(n), id)
  /\ pc' = "named"
  /\ UNCHANGED <<other, variant, OUTPUT_DIR, ADMIN_TOKEN, TENANTS, req, resolved, tenant, folder,
                 outDir, meta, plan, todo, resp, sent, dirs, files, ran>>

SpecName == InitName /\ [][MakeName]_vars

\* ------------------------------------------------ two uploads in flight
\* the request-local state of the running request as one record
Local ==
  [req |-> req, body |-> body, pc |-> pc, resolved |-> resolved, tenant |-> tenant,
   folder |-> folder, outDir |-> outDir, baseName |-> baseName, meta |-> meta,
   plan |-> plan, todo |-> todo, resp |-> resp, sent |-> sent, ran |-> ran]

\* the folder spellings the two uploads draw from
PairFolders == {<<>>, <<"a">>, <<"/", "a", "/">>, <<"a", "/", "/", "a">>}

\* a request of tenant t that the middleware and multer have passed, with the
\* declared name a.b
ParsedUpload(f) ==
  [req |-> [route |-> "post", apiKey |-> Header("k1"), adminToken |-> NoHeader],
   body |-> [hasFile |-> TRUE, folder |-> f, originalname |-> <<"a", ".", "b">>, name |-> <<>>],
   pc |-> "handler", resolved |-> Tenant("t"), tenant |-> Tenant("t"),
   folder |-> <<>>, outDir |-> <<>>, baseName |-> <<>>, meta |-> NoMeta, plan |-> NoPlan,
   todo |-> <<>>, resp |-> NoResp, sent |-> <<>>, ran |-> {"multer"}]

\* the running request becomes r
Resume(r) ==
  /\ req' = r.req
  /\ body' = r.body
  /\ pc' = r.pc
  /\ resolved' = r.resolved
  /\ tenant' = r.tenant
  /\ folder' = r.folder
  /\ outDir' = r.outDir
  /\ baseName' = r.baseName
  /\ meta' = r.meta
  /\ plan' = r.plan
  /\ todo' = r.todo
  /\ resp' = r.resp
  /\ sent' = r.sent
  /\ ran' = r.ran

\* the tenant-scoped deployment with two uploads of the same tenant and the
\* same declared name at the start of the handler of POST /upload
InitPair ==
  /\ variant = "part_002"
  /\ OUTPUT_DIR = <<"/", "d">>
  /\ ADMIN_TOKEN = ""
  /\ TENANTS = [k \in {"k1"} |-> StringEntry("t")]
  /\ \E f \in PairFolders :
       /\ req = ParsedUpload(f).req
       /\ body = ParsedUpload(f).body
  /\ pc = "handler"
  /\ resolved = Tenant("t")
  /\ tenant = Tenant("t")
  /\ folder = <<>>
  /\ outDir = <<>>
  /\ baseName = <<>>
  /\ meta = NoMeta
  /\ plan = NoPlan
  /\ todo = <<>>
  /\ resp = NoResp
  /\ sent = <<>>
  /\ ran = {"multer"}
  /\ dirs = {}
  /\ files = {}
  /\ other \in {ParsedUpload(f) : f \in PairFolders}

\* the event loop at an await of the running request: the continuation of the
\* other request runs next, the running one is parked
Switch ==
  /\ other.pc \notin {"absent", "done"}
  /\ other' = Local
  /\ Resume(other)
  /\ UNCHANGED <<variant, OUTPUT_DIR, ADMIN_TOKEN, TENANTS, dirs, files>>

NextPair ==
  \/ UploadHandler
  \/ Mkdir
  \/ Write
  \/ Switch

SpecPair == InitPair /\ [][NextPair]_vars

\* ===================================================================== claims
IsPrefix(a, b) == Len(a) <= Len(b) /\ SubSeq(b, 1, Len(a)) = a

\* the segments of an absolute path
Segs(p) == NormalizeSegs(SplitSlash(p), <<>>, FALSE)

\* p is root or lies below it, segment by segment
Under(root, p) == IsPrefix(Segs(PathResolve(root)), Segs(PathResolve(p)))

\* OUTPUT_DIR/tenant of the request
TenantRoot == OUTPUT_DIR \o <<"/">> \o TenantChars(tenant.value)

\* C1: in the tenant-scoped deployment every directory created and every file
\* written lies at OUTPUT_DIR/tenant or below it, whatever folder the client sent.
C1_Containment ==
  variant = "part_002" => \A p \in dirs \cup files : Under(TenantRoot, p)

\* C1 witness: an upload with a nested folder written with a backslash wrote both files
C1_Witness ==
  /\ variant = "part_002"
  /\ resp.status = 200
  /\ Cardinality(files) = 2
  /\ HasChar(body.folder, "\\")
  /\ HasChar(folder, "/")

\* the request carries a credential the claim calls missing or unresolvable
BadCredential ==
  /\ ~IsPublic
  /\ \/ /\ variant \in ConvertVariants \cup {"part_002"}
        /\ ~req.apiKey.present \/ req.apiKey.value \notin DOMAIN TENANTS
     \/ /\ variant = "docker_admin"
        /\ ~req.adminToken.present \/ req.adminToken.value /= ADMIN_TOKEN

\* C2: a request to a non-public endpoint whose x-api-key is absent or no key
\* of the registry, or whose admin token is absent or wrong, is answered 401 and
\* no later step runs: no multipart parsing, no mkdir, no decode, no write.
C2_Unauthorized ==
  BadCredential =>
    \/ pc = "middleware"
    \/ resp.status = 401 /\ pc = "done" /\ ran = {} /\ dirs = {} /\ files = {}

\* the deployments whose POST /upload calls sanitizeFolder
Sanitizing == variant \in {"part_002", "docker_admin"}

\* the handler has looked at the folder of a request that carries a file
FolderSeen == "handler" \in ran /\ body.hasFile

InvalidFolder == Resp(400, "Invalid folder")

\* the conditions of the claim on a string
Malformed(f) ==
  \/ Includes(f, <<".", ".">>)
  \/ StartsWith(f, <<".">>)
  \/ HasChar(f, "NUL")
  \/ \E i \in 1..Len(f) : f[i] \notin FolderSafeChars

\* C3 as stated: every folder string that contains "..", a leading dot, a null
\* byte or a character outside [A-Za-z0-9/_-] is answered 400 Invalid folder.
C3_Original ==
  Sanitizing /\ FolderSeen /\ Malformed(body.folder) => pc = "done" /\ resp = InvalidFolder

\* C3 amended: the conditions are those of the folder after normalization
\* (surrounding whitespace trimmed, backslashes turned into slashes, leading
\* and trailing slashes removed), when something is left after trimming; such a
\* folder is answered 400 Invalid folder and is not used.
C3_Rejected ==
  Sanitizing /\ FolderSeen /\ Trim(body.folder) /= <<>>
             /\ Malformed(CleanFolder(Trim(body.folder)))
    => pc = "done" /\ resp = InvalidFolder /\ outDir = <<>> /\ dirs = {} /\ files = {}

\* C3 witness: a folder with a null byte inside was answered Invalid folder
C3_Witness ==
  /\ Sanitizing
  /\ FolderSeen
  /\ HasChar(body.folder, "NUL")
  /\ resp = InvalidFolder

\* a folder made only of the allowed characters (so without a dot)
WellFormed(f) == \A i \in 1..Len(f) : f[i] \in FolderSafeChars

\* C4: for every folder made only of [A-Za-z0-9/_-], strings of slashes and
\* repeated slashes included, sanitizeFolder and ensureInsideBase do not throw
\* and the output directory is the tenant root or below it.  Stated for an
\* OUTPUT_DIR other than the filesystem root, under which ensureInsideBase
\* refuses every folder.
C4_Accepted ==
  variant = "part_002" /\ FolderSeen /\ WellFormed(body.folder)
                       /\ PathResolve(OUTPUT_DIR) /= <<"/">>
    => /\ pc = "mkdir" \/ "mkdir" \in ran
       /\ Under(TenantRoot, outDir)

\* C5: a request that ends with the Invalid folder response has touched no
\* filesystem: create-directory-recursive was not called for it.
C5_NoTouch ==
  variant \in UploadVariants /\ resp = InvalidFolder
    => "mkdir" \notin ran /\ dirs = {} /\ files = {}

\* buildSharpBase has planned from metadata
Planned == variant \in {"index", "part_000"} /\ "decode" \in ran /\ plan /= NoPlan

\* the orientation tag buildSharpBase works with
Tag == IF meta.hasOrientation THEN meta.orientation ELSE 1

\* C6: in part_000 a rotation is baked exactly when the tag is 3 or 4, or the
\* tag is in 5..8 and width > height; the output tag is always reset to 1.
C6_Bake ==
  variant = "part_000" /\ Planned =>
    /\ plan.bakeRotation <=> \/ Tag \in {3, 4}
                             \/ Tag \in 5..8 /\ meta.width > meta.height
    /\ plan.outOrientation = 1

\* C6 witness: tag 6 on a wide pixel grid was planned with a bake
C6_Witness ==
  /\ variant = "part_000"
  /\ Planned
  /\ Tag = 6
  /\ meta.width > meta.height
  /\ plan.bakeRotation

\* C7: in part_000 the classification is portrait when the tag is in 5..8 and a
\* bake was planned, otherwise exactly when height > width; the target box is
\* the portrait profile exactly when the classification is portrait.
C7_Classification ==
  variant = "part_000" /\ Planned =>
    /\ plan.portrait <=> IF Tag \in 5..8 /\ plan.bakeRotation THEN TRUE
                         ELSE meta.height > meta.width
    /\ <<plan.maxW, plan.maxH>> = IF plan.portrait
                                  THEN <<PORTRAIT_MAX_W, PORTRAIT_MAX_H>>
                                  ELSE <<LANDSCAPE_MAX_W, LANDSCAPE_MAX_H>>

\* C7 witness: tag 6 on a wide pixel grid was classified portrait
C7_Witness ==
  /\ variant = "part_000"
  /\ Planned
  /\ Tag = 6
  /\ meta.width > meta.height
  /\ plan.portrait
  /\ plan.maxW = PORTRAIT_MAX_W

\* C8: in every buildSharpBase that reads metadata, a source with a tag in 5..8
\* whose pixel grid is already taller than wide gets no baked rotation and is
\* classified portrait, so it is resized with the portrait profile.
C8_NoDoubleRotation ==
  Planned /\ Tag \in 5..8 /\ meta.height > meta.width =>
    /\ ~plan.bakeRotation
    /\ plan.portrait
    /\ <<plan.maxW, plan.maxH>> = <<PORTRAIT_MAX_W, PORTRAIT_MAX_H>>

\* the two supported shapes of a registry entry
Supported(e) == e.kind = "string" \/ (e.kind = "object" /\ e.tenantIsString)

\* the middleware has resolved the x-api-key of a request to a non-public endpoint
Resolved == pc /= "middleware" /\ ~IsPublic /\ req.apiKey.present

\* C9 as stated: for every registry entry in a supported shape the resolver
\* returns that tenant string for its key; for a key absent from the registry
\* it returns null and the middleware answers 401.
C9_Original ==
  Resolved =>
    LET k == req.apiKey.value
    IN /\ k \in DOMAIN TENANTS /\ Supported(TENANTS[k]) => resolved = Tenant(TENANTS[k].tenant)
       /\ k \notin DOMAIN TENANTS => resolved = Null /\ resp.status = 401

\* C9 amended: the resolver returns the tenant string of a supported entry
\* unless the entry is the plain empty string or, in part_002, the key is the
\* empty string (both give null); a key absent from the registry gives null and
\* the middleware answers 401.
C9_Resolver ==
  Resolved =>
    LET k == req.apiKey.value
    IN /\ /\ k \in DOMAIN TENANTS
          /\ Supported(TENANTS[k])
          /\ TENANTS[k] /= StringEntry("")
          /\ k /= "" \/ variant /= "part_002"
          => resolved = Tenant(TENANTS[k].tenant)
       /\ /\ k \in DOMAIN TENANTS
          /\ TENANTS[k] = StringEntry("") \/ (k = "" /\ variant = "part_002")
          => resolved = Null
       /\ k \notin DOMAIN TENANTS => resolved = Null /\ resp.status = 401 /\ pc = "done"

\* C9 witness: a record entry resolved to its tenant and the request went on
C9_Witness ==
  /\ Resolved
  /\ req.apiKey.value \in DOMAIN TENANTS
  /\ TENANTS[req.apiKey.value] = RecordEntry("t")
  /\ resolved = Tenant("t")
  /\ tenant = Tenant("t")
  /\ pc = "multer"

\* C10: the base name is never empty and never contains "/", "\", ".." or a
\* null byte, whatever the user-supplied name.
C10_NameContract ==
  pc = "named" =>
    /\ baseName /= <<>>
    /\ ~HasChar(baseName, "/")
    /\ ~HasChar(baseName, "\\")
    /\ ~Includes(baseName, <<".", ".">>)
    /\ ~HasChar(baseName, "NUL")

\* the request ended in buildSharpBase: sharp(buffer).metadata() rejected
DecodeFailed == pc = "done" /\ "decode" \in ran /\ "encode" \notin ran

\* the response of the catch block around the encode stage
ConversionFailed == Resp(500, "Conversion failed")

\* C11: when the codec cannot read the metadata of the source the request ends
\* with a client error (4xx), which is not the 500 response of an encode
\* failure, and no encode is attempted.
C11_DecodeClientError ==
  DecodeFailed =>
    /\ resp.status \in 400..499
    /\ resp /= ConversionFailed
    /\ todo = <<>>
    /\ sent = <<>>

\* POST /upload ended with the success JSON
Uploaded == variant \in UploadVariants /\ pc = "done" /\ resp = Resp(200, "ok") /\ "write" \in ran

\* the path toFile was given for a format
WrittenPath(ext) == PathResolve(PathJoin(<<outDir, FileName(baseName, ext)>>))

\* C12: after a successful POST /upload of the tenant-scoped deployment, for
\* each format the advertised URL path below PUBLIC_BASE_URL, resolved by the
\* static handler of /images against OUTPUT_DIR, is the path of the file that
\* was written for that format, whatever accepted folder the client sent.
C12_RoundTrip ==
  variant = "part_002" /\ Uploaded =>
    \A i \in 1..Len(sent) :
      /\ WrittenPath(sent[i].ext) \in files
      /\ StaticResolve(OUTPUT_DIR, sent[i].url) = Returned(WrittenPath(sent[i].ext))

\* the paths toFile has written for a request, from its outDir, its baseName
\* and the formats it has recorded a URL for
WrittenBy(r) ==
  {PathResolve(PathJoin(<<r.outDir, FileName(r.baseName, r.sent[i].ext)>>)) :
     i \in 1..Len(r.sent)}

\* the two uploads in flight go to the same folder with the same declared name
SameTarget ==
  /\ other.pc /= "absent"
  /\ sanitizeFolder(body.folder) = sanitizeFolder(other.body.folder)
  /\ body.originalname = other.body.originalname

ConvertFailed == variant \in ConvertVariants /\ pc = "done" /\ "encode" \in ran /\ todo /= <<>>

\* the request ended because toFile rejected for a format
UploadFailed == variant \in UploadVariants /\ pc = "done" /\ "write" \in ran /\ todo /= <<>>

\* the formats still to do are a tail of OUTPUTS
InOrder == \E k \in 0..Len(OUTPUTS) : todo = SubSeq(OUTPUTS, k + 1, Len(OUTPUTS))

\* the multipart body as written: the webp part, the avif part, the closing delimiter
CompleteBody ==
  /\ Len(sent) = 3
  /\ <<sent[1].part, sent[2].part, sent[3].part>> = <<"webp", "avif", "end">>

\* C14: the formats are processed in the order webp, avif; when the codec
\* fails on a format the request ends with 500 Conversion failed and no later
\* format is encoded, written or sent; in the multipart deployments the body is
\* either empty (the JSON error follows) or the complete two parts with the
\* closing delimiter, and the complete body goes with status 200.
C14_Abort ==
  /\ InOrder
  /\ variant \in UploadVariants => \A i \in 1..Len(sent) : sent[i].ext = OUTPUTS[i]
  /\ ConvertFailed \/ UploadFailed => resp = ConversionFailed
  /\ ConvertFailed => sent = <<>>
  /\ UploadFailed => /\ Len(sent) = Len(OUTPUTS) - Len(todo)
                     /\ files = WrittenBy(Local)
  /\ variant \in {"index", "part_000"} =>
       \/ sent = <<>>
       \/ CompleteBody /\ resp = Resp(200, "ok") /\ todo = <<>>

\* C14 witness: in a multipart deployment webp was encoded, avif failed, and
\* the request ended with the JSON error and nothing of the multipart body
C14_Witness ==
  /\ variant = "index"
  /\ ConvertFailed
  /\ todo = <<"avif">>
  /\ resp = ConversionFailed
  /\ sent = <<>>

\* C15: in the admin-token deployment a POST /upload that ends with 500
\* Conversion failed has left no file of the request under the output root, and
\* a finished request has files on disk only if it answered the success JSON
\* with a URL for every format of OUTPUTS.
C15_AllOrNothing ==
  variant = "docker_admin" /\ pc = "done" =>
    /\ resp = ConversionFailed => files = {}
    /\ files /= {} => resp = Resp(200, "ok") /\ Len(sent) = Len(OUTPUTS)

====
